---- MODULE Spec2Model ----
(***************************************************************************)
(* Callout range detection and markdown reconstruction of                  *)
(* obsidian-callout-copy-buttons.                                          *)
(*                                                                         *)
(* A document is a sequence of lines (1-indexed, as CodeMirror's Text);    *)
(* a line is a sequence of one-character strings, so that prefix tests,    *)
(* slicing, trimming, the header regular expression and the newline join   *)
(* are computed character by character.                                    *)
(***************************************************************************)
EXTENDS Integers, Sequences, FiniteSets, TLC

VARIABLES doc, field, decorations, call, loaded, parent, classes, attached, queue, processed,
          button, pending, clipboard

vars == <<doc, field, decorations, call, loaded, parent, classes, attached, queue, processed,
          button, pending, clipboard>>

editorVars == <<doc, field, decorations>>

domVars == <<loaded, parent, classes, attached, queue, processed>>

widgetVars == <<button, pending, clipboard>>

(***************************************************************************)
(* Bounds.                                                                 *)
(***************************************************************************)
MaxLines == 3

MaxDepth == 2

MaxEditLines == 2

MaxNodes == 3

(***************************************************************************)
(* String primitives (methods of String.prototype).                        *)
(***************************************************************************)
NL == "\n"

Null == [null |-> TRUE]

startsWith(s, p) == Len(p) <= Len(s) /\ SubSeq(s, 1, Len(p)) = p

slice(s, n) == SubSeq(s, n + 1, Len(s))

isWhiteSpace(c) == c = " "

RECURSIVE trimStart(_)
trimStart(s) ==
  IF s # <<>> /\ isWhiteSpace(s[1]) THEN trimStart(Tail(s)) ELSE s

RECURSIVE trimEnd(_)
trimEnd(s) ==
  IF s # <<>> /\ isWhiteSpace(s[Len(s)]) THEN trimEnd(SubSeq(s, 1, Len(s) - 1)) ELSE s

trim(s) == trimEnd(trimStart(s))

RECURSIVE join(_)
join(lines) ==
  IF lines = <<>> THEN <<>>
  ELSE IF Len(lines) = 1 THEN lines[1]
  ELSE lines[1] \o <<NL>> \o join(Tail(lines))

\* String.prototype.split("\n"): the empty string splits into one empty line.
RECURSIVE split(_)
split(s) ==
  IF \E k \in 1..Len(s) : s[k] = NL
  THEN LET k == CHOOSE k \in 1..Len(s) : s[k] = NL /\ \A j \in 1..(k - 1) : s[j] # NL
       IN  <<SubSeq(s, 1, k - 1)>> \o split(SubSeq(s, k + 1, Len(s)))
  ELSE <<s>>

(***************************************************************************)
(* /^((?:> )+)\[!.+\]/ : the number of leading "> " tokens is forced (the  *)
(* character after the last token must be "["), then "[!", at least one    *)
(* character, and a "]" somewhere after it.                                *)
(***************************************************************************)
QuoteToken == <<">", " ">>

RECURSIVE quoteTokens(_)
quoteTokens(s) ==
  IF startsWith(s, QuoteToken) THEN 1 + quoteTokens(slice(s, 2)) ELSE 0

\* exec(text): [indent |-> match[1]] on a match, Null otherwise.
CALLOUT_HEADER_REGEX(text) ==
  LET k    == quoteTokens(text)
      rest == slice(text, 2 * k)
  IN  IF /\ k >= 1
         /\ Len(rest) >= 4
         /\ rest[1] = "[" /\ rest[2] = "!"
         /\ \E j \in 4..Len(rest) : rest[j] = "]"
      THEN [indent |-> SubSeq(text, 1, 2 * k)]
      ELSE Null

(***************************************************************************)
(* Documents of the model: every sequence of 1..MaxLines lines of Pool.    *)
(***************************************************************************)
RECURSIVE Quote(_)
Quote(n) == IF n = 0 THEN <<>> ELSE QuoteToken \o Quote(n - 1)

Contents == { <<>>, <<"a">>, <<"[", "!", "a", "]">> }

Oddities == { <<">", "a">>, <<" ", ">", " ", "a">>, <<">", " ", "[", "!", "]">> }

Pool == { Quote(n) \o c : n \in 0..MaxDepth, c \in Contents } \cup Oddities

DocsOfLen(n) == [1..n -> Pool]

Docs == UNION { DocsOfLen(n) : n \in 1..MaxLines }

(***************************************************************************)
(* computeCalloutRanges: the full-document forward scan.                   *)
(***************************************************************************)
RECURSIVE forwardScan_noBreak(_, _, _, _)
forwardScan_noBreak(d, calloutIndent, i, lineEnd) ==
  IF i > Len(d) THEN lineEnd
  ELSE IF ~startsWith(d[i], calloutIndent)
       THEN forwardScan_noBreak(d, calloutIndent, i + 1, lineEnd)
       ELSE forwardScan_noBreak(d, calloutIndent, i + 1, i)

\* for (let i = line + 1; i <= doc.lines; i++) { if (!startsWith) break; lineEnd = i; }
RECURSIVE forwardScan(_, _, _, _)
forwardScan(d, calloutIndent, i, lineEnd) ==
  IF i > Len(d) THEN lineEnd
  ELSE IF ~startsWith(d[i], calloutIndent) THEN lineEnd
       ELSE forwardScan(d, calloutIndent, i + 1, i)

RECURSIVE computeCalloutRangesFrom_skipBody(_, _)
computeCalloutRangesFrom_skipBody(d, line) ==
  IF line > Len(d) THEN <<>>
  ELSE LET m == CALLOUT_HEADER_REGEX(d[line])
       IN  IF m = Null THEN computeCalloutRangesFrom_skipBody(d, line + 1)
           ELSE LET lineEnd == forwardScan(d, m.indent, line + 1, line)
                IN  <<[lineStart |-> line, lineEnd |-> lineEnd]>>
                    \o computeCalloutRangesFrom_skipBody(d, lineEnd + 1)

\* for (let line = 1; line <= doc.lines; line++) { ...; ranges.push(...) }
RECURSIVE computeCalloutRangesFrom(_, _)
computeCalloutRangesFrom(d, line) ==
  IF line > Len(d) THEN <<>>
  ELSE LET m == CALLOUT_HEADER_REGEX(d[line])
       IN  IF m = Null THEN computeCalloutRangesFrom(d, line + 1)
           ELSE <<[lineStart |-> line,
                   lineEnd   |-> forwardScan(d, m.indent, line + 1, line)]>>
                \o computeCalloutRangesFrom(d, line + 1)

computeCalloutRanges(d) == computeCalloutRangesFrom(d, 1)

(***************************************************************************)
(* findCalloutRangeContainingLine, src/DOMObserver.ts: header test first,  *)
(* then trim().startsWith(">").                                            *)
(***************************************************************************)
RECURSIVE scanUpwards_noAbort(_, _)
scanUpwards_noAbort(d, i) ==
  IF i < 1 THEN Null
  ELSE LET m == CALLOUT_HEADER_REGEX(d[i])
       IN  IF m # Null THEN [lineStart |-> i, indent |-> m.indent]
           ELSE scanUpwards_noAbort(d, i - 1)

\* Upward loop: [lineStart, indent] of the header found, Null on abort or
\* when line 1 is passed.
RECURSIVE scanUpwards(_, _)
scanUpwards(d, i) ==
  IF i < 1 THEN Null
  ELSE LET m == CALLOUT_HEADER_REGEX(d[i])
       IN  IF m # Null THEN [lineStart |-> i, indent |-> m.indent]
           ELSE IF ~startsWith(trim(d[i]), <<">">>) THEN Null
           ELSE scanUpwards(d, i - 1)

RECURSIVE scanDownwards(_, _, _, _)
scanDownwards(d, indent, i, lineEnd) ==
  IF i > Len(d) THEN lineEnd
  ELSE IF ~startsWith(d[i], indent) THEN lineEnd
       ELSE scanDownwards(d, indent, i + 1, i)

findCalloutRangeContainingLine(d, targetLine) ==
  LET up == scanUpwards(d, targetLine)
  IN  IF up = Null THEN Null
      ELSE [lineStart |-> up.lineStart,
            lineEnd   |-> scanDownwards(d, up.indent, targetLine + 1, targetLine)]

(***************************************************************************)
(* findCalloutRangeContainingLine, optimised revision: first-character /   *)
(* trimStart().startsWith(">") test first, then the header test.           *)
(***************************************************************************)
RECURSIVE scanUpwardsFast_firstCharOnly(_, _)
scanUpwardsFast_firstCharOnly(d, i) ==
  IF i < 1 THEN Null
  ELSE IF d[i] = <<>> \/ d[i][1] # ">"
       THEN Null
       ELSE LET m == CALLOUT_HEADER_REGEX(d[i])
            IN  IF m # Null THEN [lineStart |-> i, indent |-> m.indent]
                ELSE scanUpwardsFast_firstCharOnly(d, i - 1)

RECURSIVE scanUpwardsFast(_, _)
scanUpwardsFast(d, i) ==
  IF i < 1 THEN Null
  ELSE IF (d[i] = <<>> \/ d[i][1] # ">") /\ ~startsWith(trimStart(d[i]), <<">">>)
       THEN Null
       ELSE LET m == CALLOUT_HEADER_REGEX(d[i])
            IN  IF m # Null THEN [lineStart |-> i, indent |-> m.indent]
                ELSE scanUpwardsFast(d, i - 1)

RECURSIVE scanDownwardsFast(_, _, _, _)
scanDownwardsFast(d, indent, i, lineEnd) ==
  IF i > Len(d) THEN lineEnd
  ELSE IF ~startsWith(d[i], indent) THEN lineEnd
       ELSE scanDownwardsFast(d, indent, i + 1, i)

findCalloutRangeContainingLineFast(d, targetLine) ==
  LET up == scanUpwardsFast(d, targetLine)
  IN  IF up = Null THEN Null
      ELSE [lineStart |-> up.lineStart,
            lineEnd   |-> scanDownwardsFast(d, up.indent, targetLine + 1, targetLine)]

(***************************************************************************)
(* getCalloutMarkdownFromLines (BodyExtractor).                            *)
(***************************************************************************)
RECURSIVE collectBodyLines_noSlice(_, _, _, _)
collectBodyLines_noSlice(d, indent, i, lineEnd) ==
  IF i > lineEnd THEN <<>>
  ELSE IF ~startsWith(d[i], indent) THEN <<>>
       ELSE <<d[i]>> \o collectBodyLines_noSlice(d, indent, i + 1, lineEnd)

RECURSIVE collectBodyLines_skip(_, _, _, _)
collectBodyLines_skip(d, indent, i, lineEnd) ==
  IF i > lineEnd THEN <<>>
  ELSE IF ~startsWith(d[i], indent) THEN collectBodyLines_skip(d, indent, i + 1, lineEnd)
       ELSE <<slice(d[i], Len(indent))>> \o collectBodyLines_skip(d, indent, i + 1, lineEnd)

\* for (let i = lineStart + 1; i <= lineEnd; i++) { if (!startsWith) break; push(slice) }
RECURSIVE collectBodyLines(_, _, _, _)
collectBodyLines(d, indent, i, lineEnd) ==
  IF i > lineEnd THEN <<>>
  ELSE IF ~startsWith(d[i], indent) THEN <<>>
       ELSE <<slice(d[i], Len(indent))>> \o collectBodyLines(d, indent, i + 1, lineEnd)

getCalloutMarkdownFromLines_noBoundsCheck(d, lineStart, lineEnd) ==
  IF lineStart < 1 \/ lineStart > Len(d) THEN Null
  ELSE LET m == CALLOUT_HEADER_REGEX(d[lineStart])
       IN  IF m = Null THEN Null
           ELSE [text |-> join(collectBodyLines(d, m.indent, lineStart + 1,
                                                IF lineEnd > Len(d) THEN Len(d) ELSE lineEnd))]

\* [text |-> the string returned], or Null.
getCalloutMarkdownFromLines(d, lineStart, lineEnd) ==
  IF lineStart < 1 \/ lineEnd > Len(d) \/ lineStart > lineEnd THEN Null
  ELSE LET m == CALLOUT_HEADER_REGEX(d[lineStart])
       IN  IF m = Null THEN Null
           ELSE [text |-> join(collectBodyLines(d, m.indent, lineStart + 1, lineEnd))]

\* The click handler of the Live Preview "Copy (Markdown)" button, with the
\* line number doc.lineAt(posAtDOM(calloutNode, 0)).number as its input.
getMarkdownForCalloutNode(d, lineNumber) ==
  LET calloutRange == findCalloutRangeContainingLine(d, lineNumber)
  IN  IF calloutRange = Null THEN Null
      ELSE getCalloutMarkdownFromLines(d, calloutRange.lineStart, calloutRange.lineEnd)

getMarkdownForCalloutNodeFast(d, lineNumber) ==
  LET calloutRange == findCalloutRangeContainingLineFast(d, lineNumber)
  IN  IF calloutRange = Null THEN Null
      ELSE getCalloutMarkdownFromLines(d, calloutRange.lineStart, calloutRange.lineEnd)

(***************************************************************************)
(* The view plugin's decorations and the calloutRangesField.               *)
(***************************************************************************)
\* utils/getCalloutBodyText.getCalloutBodyLines: the body lines from
\* bodyStartLine on that start with calloutIndent, with the indent removed.
RECURSIVE getCalloutBodyLines(_, _, _)
getCalloutBodyLines(d, calloutIndent, bodyStartLine) ==
  IF bodyStartLine > Len(d) THEN <<>>
  ELSE IF ~startsWith(d[bodyStartLine], calloutIndent) THEN <<>>
       ELSE <<slice(d[bodyStartLine], Len(calloutIndent))>>
            \o getCalloutBodyLines(d, calloutIndent, bodyStartLine + 1)

\* One entry per callout header: the line decoration's attributes and the
\* text given to the copy widgets added at that header.
RECURSIVE buildDecorationsFrom(_, _)
buildDecorationsFrom(d, line) ==
  IF line > Len(d) THEN <<>>
  ELSE LET m == CALLOUT_HEADER_REGEX(d[line])
       IN  IF m = Null THEN buildDecorationsFrom(d, line + 1)
           ELSE LET calloutBodyLines == getCalloutBodyLines(d, m.indent, line + 1)
                IN  <<[lineStart |-> line,
                       lineEnd   |-> line + Len(calloutBodyLines),
                       text      |-> join(calloutBodyLines)]>>
                    \o buildDecorationsFrom(d, line + 1)

buildDecorations(d) == buildDecorationsFrom(d, 1)

(***************************************************************************)
(* State.  doc is the editor's document; field the value of                *)
(* calloutRangesField; decorations the view plugin's decorations; call the *)
(* most recent invocation with its inputs and its return value.            *)
(***************************************************************************)
Idle == [op |-> "idle"]

InitEditor(D) ==
  /\ doc \in D
  /\ field = computeCalloutRanges(doc)
  /\ decorations = buildDecorations(doc)

\* No copy widget has been drawn.
InitNoWidget ==
  /\ button = Null
  /\ pending = [writes |-> 0, timers |-> 0]
  /\ clipboard = Null

InitNoDOM ==
  /\ InitNoWidget
  /\ loaded = "none"
  /\ parent = <<>>
  /\ classes = <<>>
  /\ attached = {}
  /\ queue = <<>>
  /\ processed = {}

\* The caller has consumed the returned value.
Return ==
  /\ call.op # "idle"
  /\ call' = Idle
  /\ UNCHANGED <<editorVars, domVars, widgetVars>>

(***************************************************************************)
(* RangeFinder operations on the current document.                         *)
(***************************************************************************)
ComputeCalloutRanges ==
  /\ call.op = "idle"
  /\ call' = [op |-> "computeCalloutRanges", ret |-> computeCalloutRanges(doc)]
  /\ UNCHANGED <<editorVars, domVars, widgetVars>>

FindCalloutRangeContainingLine ==
  /\ call.op = "idle"
  /\ \E targetLine \in 1..Len(doc) :
       call' = [op  |-> "findCalloutRangeContainingLine",
                arg |-> targetLine,
                ret |-> findCalloutRangeContainingLine(doc, targetLine)]
  /\ UNCHANGED <<editorVars, domVars, widgetVars>>

FindCalloutRangeContainingLineFast ==
  /\ call.op = "idle"
  /\ \E targetLine \in 1..Len(doc) :
       call' = [op  |-> "findCalloutRangeContainingLineFast",
                arg |-> targetLine,
                ret |-> findCalloutRangeContainingLineFast(doc, targetLine)]
  /\ UNCHANGED <<editorVars, domVars, widgetVars>>

InitRange == InitEditor(Docs) /\ call = Idle /\ InitNoDOM

NextRange ==
  \/ ComputeCalloutRanges
  \/ FindCalloutRangeContainingLine
  \/ FindCalloutRangeContainingLineFast
  \/ Return

SpecRange == InitRange /\ [][NextRange]_vars

(***************************************************************************)
(* BodyExtractor operations on the current document.                       *)
(***************************************************************************)
GetCalloutMarkdownFromLines ==
  /\ call.op = "idle"
  /\ \E lineStart \in 0..(Len(doc) + 1), lineEnd \in 0..(Len(doc) + 1) :
       call' = [op  |-> "getCalloutMarkdownFromLines",
                lineStart |-> lineStart,
                lineEnd   |-> lineEnd,
                ret |-> getCalloutMarkdownFromLines(doc, lineStart, lineEnd)]
  /\ UNCHANGED <<editorVars, domVars, widgetVars>>

GetMarkdownForCalloutNode ==
  /\ call.op = "idle"
  /\ \E lineNumber \in 1..Len(doc) :
       call' = [op  |-> "getMarkdownForCalloutNode",
                arg |-> lineNumber,
                calloutRange |-> findCalloutRangeContainingLine(doc, lineNumber),
                ret |-> getMarkdownForCalloutNode(doc, lineNumber)]
  /\ UNCHANGED <<editorVars, domVars, widgetVars>>

GetMarkdownForCalloutNodeFast ==
  /\ call.op = "idle"
  /\ \E lineNumber \in 1..Len(doc) :
       call' = [op  |-> "getMarkdownForCalloutNodeFast",
                arg |-> lineNumber,
                calloutRange |-> findCalloutRangeContainingLineFast(doc, lineNumber),
                ret |-> getMarkdownForCalloutNodeFast(doc, lineNumber)]
  /\ UNCHANGED <<editorVars, domVars, widgetVars>>

InitExtract == InitEditor(Docs) /\ call = Idle /\ InitNoDOM

NextExtract ==
  \/ GetCalloutMarkdownFromLines
  \/ GetMarkdownForCalloutNode
  \/ GetMarkdownForCalloutNodeFast
  \/ Return

SpecExtract == InitExtract /\ [][NextExtract]_vars

(***************************************************************************)
(* Editor transactions and view updates.                                   *)
(***************************************************************************)
\* StateField.update(value, tr)
calloutRangesField_update(value, docChanged, newDoc) ==
  IF docChanged THEN computeCalloutRanges(newDoc) ELSE value

CalloutCopyButtonViewPlugin_update_viewportOnly(decos, docChanged, viewportChanged, viewDoc) ==
  IF viewportChanged THEN buildDecorations(viewDoc) ELSE decos

\* CalloutCopyButtonViewPlugin.update(update)
CalloutCopyButtonViewPlugin_update(decos, docChanged, viewportChanged, viewDoc) ==
  IF docChanged \/ viewportChanged THEN buildDecorations(viewDoc) ELSE decos

ReplaceLine(d, i, text) == [d EXCEPT ![i] = text]

InsertLine(d, i, text) == SubSeq(d, 1, i - 1) \o <<text>> \o SubSeq(d, i, Len(d))

DeleteLine(d, i) == SubSeq(d, 1, i - 1) \o SubSeq(d, i + 1, Len(d))

\* The documents one change can produce from d.
Edits(d) ==
  { ReplaceLine(d, i, text) : i \in 1..Len(d), text \in Pool }
  \cup (IF Len(d) < MaxEditLines
        THEN { InsertLine(d, i, text) : i \in 1..(Len(d) + 1), text \in Pool }
        ELSE {})
  \cup (IF Len(d) > 1 THEN { DeleteLine(d, i) : i \in 1..Len(d) } ELSE {})

\* A transaction that changes the document: the field and the plugin update.
DispatchChange ==
  \E newDoc \in Edits(doc), viewportChanged \in BOOLEAN :
    /\ doc' = newDoc
    /\ field' = calloutRangesField_update(field, TRUE, newDoc)
    /\ decorations' = CalloutCopyButtonViewPlugin_update(decorations, TRUE, viewportChanged, newDoc)
    /\ call' = [op |-> "dispatch", docChanged |-> TRUE, viewportChanged |-> viewportChanged,
                changed |-> newDoc # doc]
    /\ UNCHANGED <<domVars, widgetVars>>

\* A transaction without document changes (selection, effects).
DispatchNoChange ==
  \E viewportChanged \in BOOLEAN :
    /\ doc' = doc
    /\ field' = calloutRangesField_update(field, FALSE, doc)
    /\ decorations' = CalloutCopyButtonViewPlugin_update(decorations, FALSE, viewportChanged, doc)
    /\ call' = [op |-> "dispatch", docChanged |-> FALSE, viewportChanged |-> viewportChanged,
                changed |-> FALSE]
    /\ UNCHANGED <<domVars, widgetVars>>

\* A view update without a transaction (scrolling, resizing).
ViewportUpdate ==
  /\ decorations' = CalloutCopyButtonViewPlugin_update(decorations, FALSE, TRUE, doc)
  /\ call' = [op |-> "viewUpdate", docChanged |-> FALSE, viewportChanged |-> TRUE,
              changed |-> FALSE]
  /\ UNCHANGED <<doc, field, domVars, widgetVars>>

EditDocs == UNION { DocsOfLen(n) : n \in 1..MaxEditLines }

InitEdit == InitEditor(EditDocs) /\ call = Idle /\ InitNoDOM

NextEdit ==
  \/ DispatchChange
  \/ DispatchNoChange
  \/ ViewportUpdate

SpecEdit == InitEdit /\ [][NextEdit]_vars

(***************************************************************************)
(* The rendered DOM.  Elements are 1..MaxNodes below document.body (0);    *)
(* parent[n] < n is the element's place in the tree once it is attached,   *)
(* classes[n] its class list, attached the elements in the document, queue *)
(* the added nodes of the mutation records not yet delivered, processed    *)
(* the calls of addCopyButtonsAndMoveEditBlockButton / processNode made.   *)
(***************************************************************************)
Nodes == 1..MaxNodes

RECURSIVE ancestorsOrSelf(_)
ancestorsOrSelf(n) == IF n = 0 THEN {} ELSE {n} \cup ancestorsOrSelf(parent[n])

\* node.closest(".cm-callout") !== null
closestCMCallout(n) == \E a \in ancestorsOrSelf(n) : "cm-callout" \in classes[a]

\* node.querySelectorAll("." + cls) / node.getElementsByClassName(cls)
descendantsWithClass(n, cls) ==
  { m \in attached : m # n /\ n \in ancestorsOrSelf(m) /\ cls \in classes[m] }

\* document.querySelectorAll("." + cls)
documentElementsWithClass(cls) == { m \in attached : cls \in classes[m] }

processCall(n, isCMCalloutNode) == [calloutNode |-> n, isCMCalloutNode |-> isCMCalloutNode]

\* src/DOMObserver.ts, addAllCopyButtons: the calls it makes.
addAllCopyButtons ==
  { processCall(n, TRUE) : n \in documentElementsWithClass("cm-callout") }
  \cup { processCall(n, FALSE) : n \in documentElementsWithClass("callout") }

\* src/DOMObserver.ts, the observer's callback for one added node.
calloutDivObserver(node) ==
  { processCall(n, TRUE) :
      n \in (IF "cm-callout" \in classes[node] THEN {node} ELSE {})
            \cup descendantsWithClass(node, "cm-callout") }
  \cup
  { processCall(n, FALSE) :
      n \in (IF "callout" \in classes[node] /\ ~closestCMCallout(node) THEN {node} ELSE {})
            \cup { m \in descendantsWithClass(node, "callout") : ~closestCMCallout(m) } }

\* Optimised revision, addAllCopyButtons.
addAllCopyButtonsFast ==
  { processCall(n, TRUE) : n \in documentElementsWithClass("cm-callout") }
  \cup { processCall(n, FALSE) :
           n \in { m \in documentElementsWithClass("callout") : ~closestCMCallout(m) } }

\* Optimised revision, the observer's callback for one added node.
calloutDivObserverFast(node) ==
  { processCall(n, TRUE) :
      n \in (IF "cm-callout" \in classes[node] THEN {node}
             ELSE descendantsWithClass(node, "cm-callout")) }
  \cup
  { processCall(n, FALSE) :
      n \in (IF "callout" \in classes[node] /\ ~closestCMCallout(node) THEN {node}
             ELSE { m \in descendantsWithClass(node, "callout") : ~closestCMCallout(m) }) }

\* watchAndAddCopyButtonsToDOM: register the observer, then scan the document.
WatchAndAddCopyButtonsToDOM ==
  /\ loaded = "none"
  /\ loaded' = "DOMObserver"
  /\ processed' = processed \cup addAllCopyButtons
  /\ UNCHANGED <<editorVars, widgetVars, call, parent, classes, attached, queue>>

WatchAndAddCopyButtonsToDOMFast ==
  /\ loaded = "none"
  /\ loaded' = "DOMObserverFast"
  /\ processed' = processed \cup addAllCopyButtonsFast
  /\ UNCHANGED <<editorVars, widgetVars, call, parent, classes, attached, queue>>

subtree(n) == { m \in Nodes : n \in ancestorsOrSelf(m) }

\* The host renders: element n enters the document below its parent, alone
\* or with its whole subtree; an observing MutationObserver records it.
InsertNode ==
  \E n \in Nodes \ attached : \E added \in { {n}, subtree(n) } :
    /\ parent[n] = 0 \/ parent[n] \in attached
    /\ attached' = attached \cup added
    /\ queue' = IF loaded = "none" THEN queue ELSE Append(queue, n)
    /\ UNCHANGED <<editorVars, widgetVars, call, loaded, parent, classes, processed>>

RECURSIVE observerCalls(_)
observerCalls(q) ==
  IF q = <<>> THEN {} ELSE calloutDivObserver(Head(q)) \cup observerCalls(Tail(q))

RECURSIVE observerCallsFast(_)
observerCallsFast(q) ==
  IF q = <<>> THEN {} ELSE calloutDivObserverFast(Head(q)) \cup observerCallsFast(Tail(q))

\* The observer's callback is delivered with every pending record.
MutationCallback ==
  /\ loaded = "DOMObserver"
  /\ queue # <<>>
  /\ processed' = processed \cup observerCalls(queue)
  /\ queue' = <<>>
  /\ UNCHANGED <<editorVars, widgetVars, call, loaded, parent, classes, attached>>

MutationCallbackFast ==
  /\ loaded = "DOMObserverFast"
  /\ queue # <<>>
  /\ processed' = processed \cup observerCallsFast(queue)
  /\ queue' = <<>>
  /\ UNCHANGED <<editorVars, widgetVars, call, loaded, parent, classes, attached>>

\* Live Preview wraps the rendered .callout element in a .cm-callout block:
\* an element carries at most one of the two classes.
ClassLists == { {}, {"callout"}, {"cm-callout"} }

Trees == { p \in [Nodes -> 0..(MaxNodes - 1)] : \A n \in Nodes : p[n] < n }

InitDOM ==
  /\ InitNoWidget
  /\ doc = << <<>> >>
  /\ field = <<>>
  /\ decorations = <<>>
  /\ call = Idle
  /\ loaded = "none"
  /\ parent \in Trees
  /\ classes \in [Nodes -> ClassLists]
  /\ attached \in { A \in SUBSET Nodes : \A n \in A : parent[n] = 0 \/ parent[n] \in A }
  /\ queue = <<>>
  /\ processed = {}

NextDOM ==
  \/ WatchAndAddCopyButtonsToDOM
  \/ WatchAndAddCopyButtonsToDOMFast
  \/ InsertNode
  \/ MutationCallback
  \/ MutationCallbackFast

SpecDOM == InitDOM /\ [][NextDOM]_vars

(***************************************************************************)
(* The Source-Mode copy button (BaseCopyButtonWidget).  button is the      *)
(* widget with the state of the element toDOM() returned, pending the      *)
(* clipboard writes not yet settled and the timeouts not yet fired,        *)
(* clipboard the text last written.                                        *)
(***************************************************************************)
MaxWrites == 2

MaxTimers == 2

\* utils/getCalloutBodyText.stripLeadingQuoteMarkers: every leading ">"
\* token, with the single space after it if present, removed from a line.
RECURSIVE stripLineQuoteMarkers(_)
stripLineQuoteMarkers(line) ==
  IF startsWith(line, <<">", " ">>) THEN stripLineQuoteMarkers(slice(line, 2))
  ELSE IF startsWith(line, <<">">>) THEN stripLineQuoteMarkers(slice(line, 1))
  ELSE line

stripLeadingQuoteMarkers(text) ==
  join([k \in 1..Len(split(text)) |-> stripLineQuoteMarkers(split(text)[k])])

\* CopyMarkdownButtonWidget / CopyPlainTextButtonWidget . getTextToCopy()
getTextToCopy(widget) ==
  IF widget.buttonType = "markdown" THEN widget.text
  ELSE stripLeadingQuoteMarkers(widget.text)

\* toDOM(): the element as drawn, before any click.
toDOM(text, buttonType) ==
  [text |-> text, buttonType |-> buttonType,
   icon |-> "copy", justCopied |-> FALSE, disabled |-> FALSE]

Click_noDisabledCheck ==
  /\ pending.writes < MaxWrites
  /\ pending' = [pending EXCEPT !.writes = @ + 1]
  /\ call' = [op |-> "click", started |-> TRUE]
  /\ UNCHANGED <<editorVars, domVars, button, clipboard>>

\* The click listener: returns at once on a disabled button, otherwise
\* starts navigator.clipboard.writeText(textToCopy).
Click ==
  \/ /\ button.disabled
     /\ call' = [op |-> "click", started |-> FALSE]
     /\ UNCHANGED <<editorVars, domVars, widgetVars>>
  \/ /\ ~button.disabled
     /\ pending.writes < MaxWrites
     /\ pending' = [pending EXCEPT !.writes = @ + 1]
     /\ call' = [op |-> "click", started |-> TRUE]
     /\ UNCHANGED <<editorVars, domVars, button, clipboard>>

\* .then(): the write succeeded.
WriteResolved ==
  /\ pending.writes > 0
  /\ pending.timers < MaxTimers
  /\ clipboard' = [text |-> getTextToCopy(button)]
  /\ button' = [button EXCEPT !.icon = "check", !.justCopied = TRUE, !.disabled = TRUE]
  /\ pending' = [writes |-> pending.writes - 1, timers |-> pending.timers + 1]
  /\ call' = [op |-> "writeResolved"]
  /\ UNCHANGED <<editorVars, domVars>>

\* .catch(): the write was rejected; console.error(error).
WriteRejected ==
  /\ pending.writes > 0
  /\ pending' = [pending EXCEPT !.writes = @ - 1]
  /\ call' = [op |-> "writeRejected"]
  /\ UNCHANGED <<editorVars, domVars, button, clipboard>>

\* The setTimeout callback, 3000 ms after a successful write.
TimerFired ==
  /\ pending.timers > 0
  /\ button' = [button EXCEPT !.icon = "copy", !.justCopied = FALSE, !.disabled = FALSE]
  /\ pending' = [pending EXCEPT !.timers = @ - 1]
  /\ call' = [op |-> "timeout"]
  /\ UNCHANGED <<editorVars, domVars, clipboard>>

\* The widgets buildDecorations creates at a callout header, one drawn.
InitWidget ==
  /\ InitEditor(EditDocs)
  /\ call = Idle
  /\ loaded = "none"
  /\ parent = <<>>
  /\ classes = <<>>
  /\ attached = {}
  /\ queue = <<>>
  /\ processed = {}
  /\ \E k \in 1..Len(decorations), buttonType \in {"markdown", "plain-text"} :
       button = toDOM(decorations[k].text, buttonType)
  /\ pending = [writes |-> 0, timers |-> 0]
  /\ clipboard = Null

NextWidget ==
  \/ Click
  \/ WriteResolved
  \/ WriteRejected
  \/ TimerFired

SpecWidget == InitWidget /\ [][NextWidget]_vars

(***************************************************************************)
(* Vocabulary of the properties.                                           *)
(***************************************************************************)
IsHeader(text) == CALLOUT_HEADER_REGEX(text) # Null

IndentOf(text) == CALLOUT_HEADER_REGEX(text).indent

IsFindCall == call.op \in {"findCalloutRangeContainingLine", "findCalloutRangeContainingLineFast"}

IsClickCall == call.op \in {"getMarkdownForCalloutNode", "getMarkdownForCalloutNodeFast"}

RangeSet(d) == { computeCalloutRanges(d)[k] : k \in 1..Len(computeCalloutRanges(d)) }

\* p lies in the body of r, and no callout that starts later holds p as well.
InnermostBodyOf(d, p, r) ==
  /\ r \in RangeSet(d)
  /\ r.lineStart < p /\ p <= r.lineEnd
  /\ \A q \in RangeSet(d) : (q.lineStart < p /\ p <= q.lineEnd) => q.lineStart <= r.lineStart

\* The number of lines after line h, up to line last, in the longest run of
\* consecutive lines that all start with indent.
RunLength(d, h, last, indent) ==
  CHOOSE k \in 0..(last - h) :
    /\ \A j \in 1..k : startsWith(d[h + j], indent)
    /\ (h + k < last) => ~startsWith(d[h + k + 1], indent)

(***************************************************************************)
(* C1: for every probe line p strictly inside a callout's body (p not a    *)
(* header line), findCalloutRangeContainingLine(D, p) returns exactly the  *)
(* range the forward scan gives for that callout's header.                 *)
(***************************************************************************)
C1_ProbeInBodyFindsItsCallout ==
  IsFindCall =>
    \A r \in RangeSet(doc) :
      (InnermostBodyOf(doc, call.arg, r) /\ ~IsHeader(doc[call.arg])) => call.ret = r

(***************************************************************************)
(* C2: the range the forward scan computes from a header line h with       *)
(* indent I starts at h, every line in (h, lineEnd] starts with I, line    *)
(* lineEnd+1 (if any) does not start with I, and lineEnd = h when line h+1 *)
(* fails the prefix test or does not exist.                                *)
(***************************************************************************)
C2_ForwardScanRange ==
  call.op = "computeCalloutRanges" =>
    \A h \in 1..Len(doc) :
      IsHeader(doc[h]) =>
        /\ \E k \in 1..Len(call.ret) : call.ret[k].lineStart = h
        /\ \A k \in 1..Len(call.ret) :
             call.ret[k].lineStart = h =>
               LET lineEnd == call.ret[k].lineEnd
                   I       == IndentOf(doc[h])
               IN  /\ h <= lineEnd /\ lineEnd <= Len(doc)
                   /\ \A j \in (h + 1)..lineEnd : startsWith(doc[j], I)
                   /\ (lineEnd < Len(doc)) => ~startsWith(doc[lineEnd + 1], I)
                   /\ (h = Len(doc) \/ ~startsWith(doc[h + 1], I)) => lineEnd = h

C2_Witness ==
  /\ call.op = "computeCalloutRanges"
  /\ \E k \in 1..Len(call.ret) :
       /\ call.ret[k].lineStart < call.ret[k].lineEnd
       /\ call.ret[k].lineEnd < Len(doc)

(***************************************************************************)
(* C3: whenever findCalloutRangeContainingLine(D, p) returns a range, it   *)
(* is the range the forward scan computes from header lineStart, hence one *)
(* of computeCalloutRanges(D), with lineStart <= lineEnd <= lineCount and  *)
(* every line in (lineStart, lineEnd] starting with the header's indent.   *)
(***************************************************************************)
C3_BoundedScanRefinesForwardScan ==
  (IsFindCall /\ call.ret # Null) =>
    /\ IsHeader(doc[call.ret.lineStart])
    /\ call.ret \in RangeSet(doc)
    /\ call.ret.lineStart <= call.ret.lineEnd /\ call.ret.lineEnd <= Len(doc)
    /\ \A j \in (call.ret.lineStart + 1)..call.ret.lineEnd :
         startsWith(doc[j], IndentOf(doc[call.ret.lineStart]))

(***************************************************************************)
(* C4: for a range whose header line matches with indent I,                *)
(* getCalloutMarkdownFromLines returns the newline-join of                 *)
(* line.slice(len(I)) over the longest run of consecutive lines from       *)
(* lineStart+1, not past lineEnd, that start with I; nothing after the     *)
(* first failing line contributes.                                         *)
(***************************************************************************)
C4_ExtractBodyIsJoinOfRun ==
  ( /\ call.op = "getCalloutMarkdownFromLines"
    /\ 1 <= call.lineStart /\ call.lineStart <= call.lineEnd /\ call.lineEnd <= Len(doc)
    /\ IsHeader(doc[call.lineStart]) ) =>
    LET I == IndentOf(doc[call.lineStart])
        n == RunLength(doc, call.lineStart, call.lineEnd, I)
    IN  /\ call.ret # Null
        /\ call.ret.text = join([j \in 1..n |-> slice(doc[call.lineStart + j], Len(I))])

C4_Witness ==
  /\ call.op = "getCalloutMarkdownFromLines"
  /\ call.lineStart = 1 /\ call.lineEnd = 3 /\ Len(doc) = 3
  /\ IsHeader(doc[1])
  /\ ~startsWith(doc[2], IndentOf(doc[1]))
  /\ startsWith(doc[3], IndentOf(doc[1]))
  /\ call.ret = [text |-> <<>>]

(***************************************************************************)
(* C5: round trip.  For every range returned by the forward scan or by     *)
(* findCalloutRangeContainingLine, the body lines of the extracted text,   *)
(* each re-prefixed with the header's indent, are lines                    *)
(* lineStart+1..lineEnd of the document (same number, same text).          *)
(***************************************************************************)
\* The body lines a returned text stands for: the empty text is the join of
\* no line as well as of one empty line.
BodyLinesOf(text) == IF text = <<>> THEN { <<>>, << <<>> >> } ELSE { split(text) }

RoundTrips(d, lineStart, lineEnd, ret) ==
  /\ ret # Null
  /\ \E bodyLines \in BodyLinesOf(ret.text) :
       [k \in 1..Len(bodyLines) |-> IndentOf(d[lineStart]) \o bodyLines[k]]
         = SubSeq(d, lineStart + 1, lineEnd)

\* The round trip for the ranges of the forward scan.
C5_ForwardHalf ==
  ( /\ call.op = "getCalloutMarkdownFromLines"
       /\ [lineStart |-> call.lineStart, lineEnd |-> call.lineEnd] \in RangeSet(doc) )
       => RoundTrips(doc, call.lineStart, call.lineEnd, call.ret)

C5_RoundTrip ==
  /\ C5_ForwardHalf
  /\ (IsClickCall /\ call.calloutRange # Null)
       => RoundTrips(doc, call.calloutRange.lineStart, call.calloutRange.lineEnd, call.ret)

(***************************************************************************)
(* C6: no line of the text returned by getCalloutMarkdownFromLines starts  *)
(* with the header's indent I.                                             *)
(***************************************************************************)
C6_NoOutputLineStartsWithIndent ==
  (call.op = "getCalloutMarkdownFromLines" /\ call.ret # Null) =>
    \A k \in 1..Len(split(call.ret.text)) :
      ~startsWith(split(call.ret.text)[k], IndentOf(doc[call.lineStart]))

(***************************************************************************)
(* C6 as amended: exactly one level of the indent I is removed, so the     *)
(* k-th line of the returned text starts with I only if document line      *)
(* lineStart+k lies in the range and starts with I twice (a nested         *)
(* blockquote or callout line).                                            *)
(***************************************************************************)
C6_OneIndentLevelStripped ==
  (call.op = "getCalloutMarkdownFromLines" /\ call.ret # Null) =>
    LET I == IndentOf(doc[call.lineStart])
        out == split(call.ret.text)
    IN  \A k \in 1..Len(out) :
          startsWith(out[k], I) =>
            /\ call.lineStart + k <= call.lineEnd
            /\ startsWith(doc[call.lineStart + k], I \o I)

C6_Witness ==
  /\ call.op = "getCalloutMarkdownFromLines"
  /\ call.ret # Null
  /\ \E k \in 1..Len(split(call.ret.text)) :
       startsWith(split(call.ret.text)[k], IndentOf(doc[call.lineStart]))

(***************************************************************************)
(* C7: findCalloutRangeContainingLine(D, p) returns null exactly when,     *)
(* walking upward from p, a line that is neither a header nor (leading     *)
(* whitespace stripped) starts with ">" is met before any header, or line  *)
(* 1 is passed without a header; otherwise lineStart is the nearest header *)
(* at or above p.                                                          *)
(***************************************************************************)
HeadersAtOrAbove(d, p) == { h \in 1..p : IsHeader(d[h]) }

NearestHeader(d, p) == CHOOSE h \in HeadersAtOrAbove(d, p) : \A g \in HeadersAtOrAbove(d, p) : g <= h

LooksQuoted(text) == \E k \in 1..Len(text) : text[k] = ">" /\ \A j \in 1..(k - 1) : text[j] = " "

NoEnclosingHeader(d, p) ==
  \/ HeadersAtOrAbove(d, p) = {}
  \/ \E i \in 1..p : /\ ~IsHeader(d[i]) /\ ~LooksQuoted(d[i])
                     /\ \A h \in HeadersAtOrAbove(d, p) : h < i

C7_AbsenceIffNoHeaderReached ==
  IsFindCall =>
    /\ (call.ret = Null) <=> NoEnclosingHeader(doc, call.arg)
    /\ (call.ret # Null) => call.ret.lineStart = NearestHeader(doc, call.arg)

C7_Witness ==
  /\ IsFindCall
  /\ call.ret = Null
  /\ HeadersAtOrAbove(doc, call.arg) # {}

(***************************************************************************)
(* C8: getCalloutMarkdownFromLines returns null exactly when the bounds    *)
(* are unusable or line lineStart does not match the header pattern; in    *)
(* every other case a string, the empty string for a header-only range.    *)
(***************************************************************************)
C8_NullIffInvalid ==
  call.op = "getCalloutMarkdownFromLines" =>
    LET unusable == call.lineStart < 1 \/ call.lineEnd > Len(doc) \/ call.lineStart > call.lineEnd
    IN  /\ (call.ret = Null) <=> (unusable \/ ~IsHeader(doc[call.lineStart]))
        /\ (~unusable /\ IsHeader(doc[call.lineStart]) /\ call.lineEnd = call.lineStart)
             => call.ret = [text |-> <<>>]

C8_Witness ==
  /\ call.op = "getCalloutMarkdownFromLines"
  /\ 1 <= call.lineStart /\ call.lineStart < call.lineEnd /\ call.lineEnd <= Len(doc)
  /\ ~IsHeader(doc[call.lineStart])
  /\ IsHeader(doc[call.lineEnd])
  /\ call.ret = Null

(***************************************************************************)
(* C9: derived callout data is never stale: after any sequence of          *)
(* transactions and view updates the field value and the decorations (so   *)
(* the text held by each copy widget) are what a fresh computation on the  *)
(* current document gives; an update with neither docChanged nor           *)
(* viewportChanged leaves the decorations unchanged and a transaction      *)
(* without docChanged leaves the field value unchanged.                    *)
(***************************************************************************)
DerivedDataFresh ==
  /\ field = computeCalloutRanges(doc)
  /\ decorations = buildDecorations(doc)

UpdateFrame ==
  /\ (call'.op \in {"dispatch", "viewUpdate"} /\ ~call'.docChanged /\ ~call'.viewportChanged)
       => decorations' = decorations
  /\ (call'.op = "dispatch" /\ ~call'.docChanged) => field' = field

C9_DerivedDataNeverStale == [](DerivedDataFresh) /\ [][UpdateFrame]_vars

C9_Witness ==
  /\ call.op = "dispatch"
  /\ call.docChanged /\ ~call.viewportChanged /\ call.changed
  /\ Len(decorations) = 1
  /\ decorations[1].text # <<>>

(***************************************************************************)
(* C10: a .callout element inside a .cm-callout element is never processed *)
(* as a standard callout: every call with isCMCalloutNode = false, by the  *)
(* initial scan or by a mutation callback, is on a .callout node with no   *)
(* .cm-callout ancestor-or-self.                                           *)
(***************************************************************************)
C10_NoStandardProcessingInsideCMCallout ==
  \A c \in processed :
    ~c.isCMCalloutNode =>
      /\ "callout" \in classes[c.calloutNode]
      /\ ~closestCMCallout(c.calloutNode)

(***************************************************************************)
(* C11: computeCalloutRanges returns exactly one range per header line, in *)
(* strictly increasing lineStart order, and any two of the ranges are      *)
(* disjoint or nested, never partially overlapping: a header inside the    *)
(* range of an earlier header has a range that ends no later.              *)
(***************************************************************************)
C11_RangesOnePerHeaderAndLaminar ==
  call.op = "computeCalloutRanges" =>
    LET ranges == call.ret
    IN  /\ \A h \in 1..Len(doc) :
             Cardinality({ k \in 1..Len(ranges) : ranges[k].lineStart = h })
               = (IF IsHeader(doc[h]) THEN 1 ELSE 0)
        /\ \A k \in 1..Len(ranges) : ranges[k].lineStart \in 1..Len(doc)
        /\ \A k \in 1..(Len(ranges) - 1) : ranges[k].lineStart < ranges[k + 1].lineStart
        /\ \A j \in 1..Len(ranges), k \in 1..Len(ranges) :
             (ranges[j].lineStart < ranges[k].lineStart) =>
               \/ ranges[j].lineEnd < ranges[k].lineStart
               \/ ranges[k].lineEnd <= ranges[j].lineEnd

C11_Witness ==
  /\ call.op = "computeCalloutRanges"
  /\ Len(call.ret) = 2
  /\ call.ret[2].lineStart <= call.ret[1].lineEnd
  /\ call.ret[2].lineStart < call.ret[2].lineEnd

(***************************************************************************)
(* C12: the two revisions of findCalloutRangeContainingLine (header test   *)
(* first, then trim().startsWith(">"); first-character /                   *)
(* trimStart().startsWith(">") test first, then the header test) return    *)
(* the same result for every document and every targetLine in              *)
(* 1..lineCount: both null or both the same range.                         *)
(***************************************************************************)
C12_RevisionsAgree ==
  /\ (call.op = "findCalloutRangeContainingLine")
       => call.ret = findCalloutRangeContainingLineFast(doc, call.arg)
  /\ (call.op = "findCalloutRangeContainingLineFast")
       => call.ret = findCalloutRangeContainingLine(doc, call.arg)

\* The upward scan has passed a line with leading whitespace before ">".
C12_Witness ==
  /\ call.op = "findCalloutRangeContainingLineFast"
  /\ call.ret # Null
  /\ call.ret.lineStart < call.arg
  /\ doc[call.arg][1] = " "

(***************************************************************************)
(* C13: a click on a button that has the disabled attribute starts no      *)
(* clipboard write and changes nothing on the button (icon, just-copied    *)
(* class, disabled attribute, pending timers); a clipboard write is        *)
(* started only by a click on a button without the disabled attribute; a   *)
(* rejected write leaves icon, class and disabled attribute unchanged.     *)
(***************************************************************************)
ClickFrame ==
  /\ (call'.op = "click" /\ button.disabled)
       => /\ pending'.writes = pending.writes
          /\ pending'.timers = pending.timers
          /\ button' = button
  /\ (pending'.writes > pending.writes)
       => (call'.op = "click" /\ ~button.disabled)
  /\ (call'.op = "writeRejected")
       => /\ button'.icon = button.icon
          /\ button'.justCopied = button.justCopied
          /\ button'.disabled = button.disabled

C13_DisabledClickIsNoOp == [][ClickFrame]_vars

C13_Witness ==
  /\ call.op = "click"
  /\ ~call.started
  /\ button.disabled
  /\ pending.timers > 0
  /\ pending.writes > 0

====
